---- MODULE Spec2Model ----
(***************************************************************************)
(* AccidentVisualizer (web_design/visualizer.py): the field catalog, the   *)
(* type-pair dispatch of generate_visualization, the SQL text each chart   *)
(* routine composes, the rows the backing store answers with, and the      *)
(* post-processing of those rows.                                          *)
(*                                                                         *)
(* Representation.                                                         *)
(*  - A Python str is the sequence of its Unicode code points, so that     *)
(*    sorted() is the code-point lexicographic order it is in Python.      *)
(*    Display labels and stored year-month values are such sequences.      *)
(*  - An internal column name "TABLE.Column" is kept as the pair           *)
(*    <<"TABLE", "Column">> that var.split('.') yields (no name of the     *)
(*    catalog holds a second '.').  The pseudo column '(사고건수)' is       *)
(*    written "(AccidentCount)".                                           *)
(*  - The type tags '범주형', '수치형', '시간형', '알 수 없음' are written      *)
(*    "Categorical", "Numeric", "Temporal", "Unknown"; the user messages   *)
(*    are written as short ASCII tags (see the Msg* definitions).          *)
(***************************************************************************)
EXTENDS Integers, Sequences, FiniteSets, TLC

VARIABLES
    COLUMN_CONFIG,      \* the catalog: sequence of entries in dict order
    LABEL_TO_INTERNAL,  \* self.LABEL_TO_INTERNAL: label -> internal name
    db,                 \* contents of the backing store (ACCIDENT, DRIVER, REGION)
    call,               \* the last operation and its arguments
    out,                \* everything the last operation did and returned
    columns,            \* the last value returned by get_available_columns
    held,               \* connections of the engine acquired and not yet released
    previous            \* the query and the rows of the previous fetch of the session

vars == <<COLUMN_CONFIG, LABEL_TO_INTERNAL, db, call, out, columns, held, previous>>

----------------------------------------------------------------------------
(* Python strings as code-point sequences *)

RECURSIVE StrLess(_, _)
\* s < t for Python str: first differing code point decides, a proper
\* prefix is smaller.
StrLess(s, t) ==
    IF t = <<>> THEN FALSE
    ELSE IF s = <<>> THEN TRUE
    ELSE IF Head(s) # Head(t) THEN Head(s) < Head(t)
    ELSE StrLess(Tail(s), Tail(t))

RECURSIVE InsertSorted(_, _)
InsertSorted(x, seq) ==
    IF seq = <<>> THEN <<x>>
    ELSE IF StrLess(x, Head(seq)) THEN <<x>> \o seq
    ELSE <<Head(seq)>> \o InsertSorted(x, Tail(seq))

RECURSIVE sorted(_)
\* sorted(list): ascending, stable.
sorted(seq) ==
    IF seq = <<>> THEN <<>>
    ELSE InsertSorted(seq[Len(seq)], sorted(SubSeq(seq, 1, Len(seq) - 1)))

----------------------------------------------------------------------------
(* The catalog *)

AccidentCountCol == "(AccidentCount)"

\* The display labels, as code points.
L_DayNight            == <<51452, 50556>>                                \* 주야
L_AccidentType        == <<49324, 44256, 50976, 54805>>                  \* 사고유형
L_LawViolationYn      == <<48277, 44508, 50948, 48152, 32, 50668, 48512>> \* 법규위반 여부
L_RoadSurfaceState    == <<45432, 47732, 49345, 53468>>                  \* 노면상태
L_WeatherState        == <<44592, 49345, 49345, 53468>>                  \* 기상상태
L_RoadForm            == <<46020, 47196, 54805, 53468>>                  \* 도로형태
L_RegionName          == <<51648, 50669, 47749, 32, 40, 49884, 44400, 44396, 41>> \* 지역명 (시군구)
L_Role                == <<50868, 51204, 51088, 32, 44396, 48516, 32, 40, 44032, 54644, 47, 54588, 54644, 41>> \* 운전자 구분 (가해/피해)
L_VehicleType         == <<50868, 51204, 51088, 32, 52264, 51333>>       \* 운전자 차종
L_Gender              == <<50868, 51204, 51088, 32, 49457, 48324>>       \* 운전자 성별
L_AgeGroup            == <<50868, 51204, 51088, 32, 50672, 47161, 45824>> \* 운전자 연령대
L_InjuryLevel         == <<50868, 51204, 51088, 32, 49345, 54644, 51221, 46020>> \* 운전자 상해정도
L_DeathCount          == <<49324, 47581, 51088, 49688>>                  \* 사망자수
L_SevereInjuryCount   == <<51473, 49345, 51088, 49688>>                  \* 중상자수
L_MinorInjuryCount    == <<44221, 49345, 51088, 49688>>                  \* 경상자수
L_ReportedInjuryCount == <<48512, 49345, 49888, 44256, 51088, 49688>>    \* 부상신고자수
L_AccidentCount       == <<49324, 44256, 44148, 49688>>                  \* 사고건수
L_OccurYearMonth      == <<48156, 49373, 45380, 50900>>                  \* 발생년월

Entry(t, c, ty, l) == [key |-> <<t, c>>, type |-> ty, label |-> l]

\* The class attribute COLUMN_CONFIG, in the order of the dict literal.
ColumnConfigLiteral ==
    << Entry("ACCIDENT", "DayNight",            "Categorical", L_DayNight),
       Entry("ACCIDENT", "AccidentType",        "Categorical", L_AccidentType),
       Entry("ACCIDENT", "LawViolationYn",      "Categorical", L_LawViolationYn),
       Entry("ACCIDENT", "RoadSurfaceState",    "Categorical", L_RoadSurfaceState),
       Entry("ACCIDENT", "WeatherState",        "Categorical", L_WeatherState),
       Entry("ACCIDENT", "RoadForm",            "Categorical", L_RoadForm),
       Entry("REGION",   "RegionName",          "Categorical", L_RegionName),
       Entry("DRIVER",   "Role",                "Categorical", L_Role),
       Entry("DRIVER",   "VehicleType",         "Categorical", L_VehicleType),
       Entry("DRIVER",   "Gender",              "Categorical", L_Gender),
       Entry("DRIVER",   "AgeGroup",            "Categorical", L_AgeGroup),
       Entry("DRIVER",   "InjuryLevel",         "Categorical", L_InjuryLevel),
       Entry("ACCIDENT", "DeathCount",          "Numeric",     L_DeathCount),
       Entry("ACCIDENT", "SevereInjuryCount",   "Numeric",     L_SevereInjuryCount),
       Entry("ACCIDENT", "MinorInjuryCount",    "Numeric",     L_MinorInjuryCount),
       Entry("ACCIDENT", "ReportedInjuryCount", "Numeric",     L_ReportedInjuryCount),
       Entry("ACCIDENT", AccidentCountCol,      "Numeric",     L_AccidentCount),
       Entry("ACCIDENT", "OccurYearMonth",      "Temporal",    L_OccurYearMonth) >>

\* The absent value (Python None) in place of an internal name.
None == <<>>

\* {v['label']: k for k, v in COLUMN_CONFIG.items()}: a later entry with the
\* same label overwrites an earlier one.
BuildLabelMap(config) ==
    LET labels == {config[i].label : i \in 1..Len(config)}
        last(l) == CHOOSE i \in 1..Len(config) :
                      /\ config[i].label = l
                      /\ \A j \in 1..Len(config) : config[j].label = l => j <= i
    IN  [l \in labels |-> config[last(l)].key]

RECURSIVE KeyList(_)
\* list(d.keys()): each key once (sorted() makes their order irrelevant).
KeyList(keys) ==
    IF keys = {} THEN <<>>
    ELSE LET k == CHOOSE x \in keys : TRUE
         IN  <<k>> \o KeyList(keys \ {k})

\* Variant of get_available_columns: the keys are returned as listed.
get_available_columns_unsorted(map) == KeyList(DOMAIN map)

\* get_available_columns(self)
get_available_columns(map) == sorted(KeyList(DOMAIN map))

\* Variant of get_internal_name: an absent label falls back to the
\* accident-count column, as .get(label, 'ACCIDENT.(사고건수)') would.
get_internal_name_default(map, label) ==
    IF label \in DOMAIN map THEN map[label] ELSE <<"ACCIDENT", AccidentCountCol>>

\* _get_internal_name(self, label): dict.get, None when absent.
get_internal_name(map, label) ==
    IF label \in DOMAIN map THEN map[label] ELSE None

\* _get_column_type(self, internal_name)
get_column_type(config, internal_name) ==
    IF \E i \in 1..Len(config) : config[i].key = internal_name
    THEN LET i == CHOOSE j \in 1..Len(config) : config[j].key = internal_name
         IN  config[i].type
    ELSE "Unknown"

----------------------------------------------------------------------------
(* The backing store: tables ACCIDENT, DRIVER, REGION *)

\* Bounds of the database contents explored.
MaxAccidents == 22
MaxSeed == 2

\* Stored OccurYearMonth strings.
YM_202201 == <<50, 48, 50, 50, 48, 49>>     \* "202201"
YM_202112 == <<50, 48, 50, 49, 49, 50>>     \* "202112"
YM_202210 == <<50, 48, 50, 50, 49, 48>>     \* "202210"
YM_abcd12 == <<97, 98, 99, 100, 49, 50>>    \* "abcd12"
YM_202213 == <<50, 48, 50, 50, 49, 51>>     \* "202213" (no such month)

\* What the OccurYearMonth column holds: only well-formed values, a mix,
\* or only malformed ones.
MonthPatterns == {"wellformed", "mixed", "malformed"}

MonthsOf(pat) ==
    CASE pat = "wellformed" -> <<YM_202201, YM_202112, YM_202210>>
      [] pat = "mixed"      -> <<YM_202201, YM_abcd12, YM_202210>>
      [] OTHER              -> <<YM_abcd12, YM_202213, YM_abcd12>>

AccidentRow(i, seed, pat) ==
    [ AccidentID          |-> i,
      RegionCode          |-> IF seed = 1 THEN i ELSE (i + 1) \div 2,
      DayNight            |-> i % 2,
      AccidentType        |-> (i * seed) % 3,
      LawViolationYn      |-> (i + seed) % 2,
      RoadSurfaceState    |-> i % 3,
      WeatherState        |-> (i \div 2) % 2,
      RoadForm            |-> (i \div 3) % 3,
      DeathCount          |-> (i * seed) % 2,
      SevereInjuryCount   |-> (i + seed) % 3,
      MinorInjuryCount    |-> i % 4,
      ReportedInjuryCount |-> (i \div 2) % 2,
      OccurYearMonth      |-> MonthsOf(pat)[(i % 3) + 1] ]

\* Accident i has 0, 1 or 2 DRIVER rows.
DriversOf(i, seed) == 1..((i + seed) % 3)

DriverRow(i, j, seed) ==
    [ DriverID    |-> 10 * i + j,
      AccidentID  |-> i,
      Role        |-> j,
      VehicleType |-> (i + j) % 3,
      Gender      |-> (i * j) % 2,
      AgeGroup    |-> (i + seed * j) % 4,
      InjuryLevel |-> (i + j + seed) % 2 ]

RegionRow(c) == [ RegionCode |-> c, RegionName |-> 100 + c ]

\* A database with n accidents.
GenDB(n, seed, pat) ==
    [ ACCIDENT |-> {AccidentRow(i, seed, pat) : i \in 1..n},
      DRIVER   |-> UNION {{DriverRow(i, j, seed) : j \in DriversOf(i, seed)} : i \in 1..n},
      REGION   |-> {RegionRow(c) : c \in 1..n} ]

Sizes == {0, 3, MaxAccidents}

Databases == {GenDB(n, seed, pat) : n \in Sizes, seed \in 1..MaxSeed, pat \in MonthPatterns}

----------------------------------------------------------------------------
(* SQL text, as a structure *)

Col(ref) == [kind |-> "col", func |-> "", ref |-> ref, as |-> ref[2]]
Agg(f, ref, name) == [kind |-> "agg", func |-> f, ref |-> ref, as |-> name]

AccidentIdRef == <<"ACCIDENT", "AccidentID">>

NoOrder == <<>>
OrderByCol(ref) == <<"col", ref>>
OrderByValueDesc == <<"Value DESC">>

\* The rows LIMIT keeps in the bar chart query.
TopN == 20
NoLimit == 0

\* " JOIN <table> ON ACCIDENT.<column> = <table>.<column>"
Join(t, c) == [table |-> t, on |-> c]

\* Variant of JoinClause: both joins are always written.
JoinClause_all(tables_needed) ==
    <<Join("DRIVER", "AccidentID"), Join("REGION", "RegionCode")>>

\* The join clause every routine composes from tables_needed: DRIVER first,
\* then REGION, each appended once when it is in the set.
JoinClause(tables_needed) ==
    (IF "DRIVER" \in tables_needed THEN <<Join("DRIVER", "AccidentID")>> ELSE <<>>)
    \o (IF "REGION" \in tables_needed THEN <<Join("REGION", "RegionCode")>> ELSE <<>>)

\* _build_query_components(var1, var2, agg_func): a falsy agg_func (None,
\* written "") gives the plain two-column select.
build_query_components(var1, var2, agg_func) ==
    LET table1 == var1[1]
        col1   == var1[2]
        table2 == var2[1]
        col2   == var2[2]
        tables_needed == {"ACCIDENT", table1, table2}
        select_col2 == IF col2 = AccidentCountCol
                       THEN Agg("COUNT", AccidentIdRef, "Value")
                       ELSE Agg(agg_func, <<table2, col2>>, "Value")
    IN  IF agg_func # ""
        THEN [ select |-> <<Col(<<table1, col1>>), select_col2>>,
               from    |-> "ACCIDENT",
               joins   |-> JoinClause(tables_needed),
               groupBy |-> <<(<<table1, col1>>)>>,
               orderBy |-> OrderByCol(<<table1, col1>>) ]
        ELSE [ select |-> <<Col(<<table1, col1>>), Col(<<table2, col2>>)>>,
               from    |-> "ACCIDENT",
               joins   |-> JoinClause(tables_needed),
               groupBy |-> <<>>,
               orderBy |-> NoOrder ]

MkQuery(sel, frm, jn, grp, odr, lim) ==
    [select |-> sel, from |-> frm, joins |-> jn, groupBy |-> grp,
     orderBy |-> odr, limit |-> lim]

----------------------------------------------------------------------------
(* What the backing store answers: inner joins, GROUP BY, COUNT/SUM,       *)
(* ORDER BY, LIMIT.  A joined row maps each joined table to one of its     *)
(* rows.                                                                   *)

Cell(j, ref) == j[ref[1]][ref[2]]

JoinOn(j, jn, r) == j["ACCIDENT"][jn.on] = r[jn.on]

RECURSIVE JoinAll(_, _, _)
JoinAll(J, joins, d) ==
    IF joins = <<>> THEN J
    ELSE LET jn == Head(joins)
             step == UNION {{j @@ (jn.table :> r) :
                               r \in {x \in d[jn.table] : JoinOn(j, jn, x)}} : j \in J}
         IN  JoinAll(step, Tail(joins), d)

RECURSIVE SumOver(_, _)
SumOver(S, ref) ==
    IF S = {} THEN 0
    ELSE LET x == CHOOSE y \in S : TRUE
         IN  Cell(x, ref) + SumOver(S \ {x}, ref)

IsTextCol(item) == item.kind = "col" /\ item.ref[2] = "OccurYearMonth"

\* A total order on result rows, used where SQL leaves the order open.
RECURSIVE FlatRow(_, _, _)
FlatRow(row, select, i) ==
    IF i > Len(select) THEN <<>>
    ELSE (IF IsTextCol(select[i]) THEN <<Len(row[i])>> \o row[i] ELSE <<row[i]>>)
         \o FlatRow(row, select, i + 1)

PosOfRef(select, ref) == CHOOSE i \in 1..Len(select) : select[i].kind = "col" /\ select[i].ref = ref
PosOfValue(select) == CHOOSE i \in 1..Len(select) : select[i].kind = "agg"

\* a strictly before b under the ORDER BY clause of q.
OrderedBefore(a, b, q) ==
    IF q.orderBy = NoOrder THEN FALSE
    ELSE IF q.orderBy = OrderByValueDesc
         THEN a[PosOfValue(q.select)] > b[PosOfValue(q.select)]
         ELSE LET p == PosOfRef(q.select, q.orderBy[2])
              IN  IF IsTextCol(q.select[p]) THEN StrLess(a[p], b[p]) ELSE a[p] < b[p]

\* Rows the ORDER BY clause does not separate come in an order the store
\* picks: tie is that pick.
RowBefore(a, b, q, tie) ==
    IF OrderedBefore(a, b, q) THEN TRUE
    ELSE IF OrderedBefore(b, a, q) THEN FALSE
    ELSE IF tie = "asc" THEN StrLess(FlatRow(a, q.select, 1), FlatRow(b, q.select, 1))
         ELSE StrLess(FlatRow(b, q.select, 1), FlatRow(a, q.select, 1))

RECURSIVE OrderRows(_, _, _)
OrderRows(S, q, tie) ==
    IF S = {} THEN <<>>
    ELSE LET first == CHOOSE a \in S : \A b \in S \ {a} : RowBefore(a, b, q, tie)
         IN  <<first>> \o OrderRows(S \ {first}, q, tie)

Limit(rows, n) == IF n = NoLimit \/ Len(rows) <= n THEN rows ELSE SubSeq(rows, 1, n)

TablesOf(q) == {q.from} \cup {q.joins[i].table : i \in 1..Len(q.joins)}

RefsOf(q) == {q.select[i].ref : i \in 1..Len(q.select)}
             \cup {q.groupBy[i] : i \in 1..Len(q.groupBy)}

\* The grouped rows of q before ORDER BY and LIMIT.
GroupedRows(d, q) ==
    LET J == JoinAll({("ACCIDENT" :> a) : a \in d.ACCIDENT}, q.joins, d)
        keyOf(j) == [i \in 1..Len(q.groupBy) |-> Cell(j, q.groupBy[i])]
        keys == {keyOf(j) : j \in J}
        members(k) == {j \in J : keyOf(j) = k}
        item(k, it) ==
            IF it.kind = "col" THEN Cell(CHOOSE j \in members(k) : TRUE, it.ref)
            ELSE IF it.func = "COUNT" THEN Cardinality(members(k))
            ELSE SumOver(members(k), it.ref)
    IN  {[i \in 1..Len(q.select) |-> item(k, q.select[i])] : k \in keys}

\* The columns of the schema.
TableColumns(t) ==
    CASE t = "ACCIDENT" -> DOMAIN AccidentRow(1, 1, "wellformed")
      [] t = "DRIVER"   -> DOMAIN DriverRow(1, 1, 1)
      [] t = "REGION"   -> DOMAIN RegionRow(1)
      [] OTHER          -> {}

\* pd.read_sql(text(query), conn): the rows, or the error of the store when
\* the text names a column that a joined table does not have.  (Every query
\* a routine composes has a GROUP BY; the plain select of
\* _build_query_components is never sent.)
ExecuteQuery(d, q, tie) ==
    IF \E ref \in RefsOf(q) : ref[1] \notin TablesOf(q) \/ ref[2] \notin TableColumns(ref[1])
    THEN [ok |-> FALSE, rows |-> <<>>, error |-> "unknown column"]
    ELSE [ok |-> TRUE, rows |-> Limit(OrderRows(GroupedRows(d, q), q, tie), q.limit),
          error |-> ""]

----------------------------------------------------------------------------
(* pd.to_datetime(column, format='%Y%m') *)

IsDigit(c) == c \in 48..57
DigitVal(c) == c - 48

\* A parsed date: the first day of the month.  The leading -1 keeps a date
\* apart from every raw string (code points are not negative).
Date(y, m) == <<-1, y, m, 1>>
IsDate(v) == Len(v) > 0 /\ v[1] = -1

\* strptime with '%Y%m': four digits of year, then a month 1..12 written
\* with one or two digits, and nothing after it.
ParseYM(s) ==
    IF /\ Len(s) \in {5, 6}
       /\ \A i \in 1..Len(s) : IsDigit(s[i])
    THEN LET y == 1000 * DigitVal(s[1]) + 100 * DigitVal(s[2])
                  + 10 * DigitVal(s[3]) + DigitVal(s[4])
             m == IF Len(s) = 6 THEN 10 * DigitVal(s[5]) + DigitVal(s[6])
                  ELSE DigitVal(s[5])
         IN  IF y >= 1 /\ m \in 1..12
             THEN [ok |-> TRUE, value |-> Date(y, m)]
             ELSE [ok |-> FALSE, value |-> s]
    ELSE [ok |-> FALSE, value |-> s]

\* Variant of to_datetime_column: each value is converted on its own, as
\* errors='coerce' with a fill of the raw value would.
to_datetime_column_per_row(rows, p) ==
    [rows |-> [i \in 1..Len(rows) |-> [rows[i] EXCEPT ![p] = ParseYM(rows[i][p]).value]],
     warnings |-> IF \A i \in 1..Len(rows) : ParseYM(rows[i][p]).ok THEN 0 ELSE 1]

\* try: df[col] = pd.to_datetime(df[col], format='%Y%m')
\* except Exception: logging.warning(...)
\* The conversion is of the whole column and raises on the first value it
\* cannot parse, so the assignment either replaces every value or none.
to_datetime_column(rows, p) ==
    IF \A i \in 1..Len(rows) : ParseYM(rows[i][p]).ok
    THEN [rows |-> [i \in 1..Len(rows) |-> [rows[i] EXCEPT ![p] = ParseYM(rows[i][p]).value]],
          warnings |-> 0]
    ELSE [rows |-> rows, warnings |-> 1]

----------------------------------------------------------------------------
(* Results *)

\* A title or a message: fmt names the text, a, b, c are the labels put in
\* it, text is the error text put in it.
Text(fmt, a, b, c, e) == [fmt |-> fmt, a |-> a, b |-> b, c |-> c, text |-> e]

MsgNotFound         == Text("variable name not found", <<>>, <<>>, <<>>, "")
MsgNoVisualization  == Text("cannot generate visualization for this combination", <<>>, <<>>, <<>>, "")
MsgNoAccidentCount  == Text("accident-count not supported", <<>>, <<>>, <<>>, "")
MsgNoData           == Text("no data for bubble chart", <<>>, <<>>, <<>>, "")
MsgChartError(e)    == Text("error while generating chart", <<>>, <<>>, <<>>, e)

Chart(kind, x, y, color, size, data, title, labels) ==
    [kind |-> kind, x |-> x, y |-> y, color |-> color, size |-> size,
     data |-> data, title |-> title, labels |-> labels]

\* Python None in place of a figure.
NoChart == Chart("None", "", "", "", "", <<>>, Text("", <<>>, <<>>, <<>>, ""), <<>>)

\* Where the environment fails during a call, and how the store orders rows
\* its ORDER BY leaves tied.
Faults == {"none", "connect", "execute", "render"}
Ties == {"asc", "desc"}

\* Variant of fetch_data: the rows of the previous fetch are handed out again
\* when the same query comes back, without going to the store.
fetch_data_cached(d, query, fault, tie) ==
    IF previous.queries = <<query>>
    THEN [exc |-> "", rows |-> previous.rows, connects |-> 0, releases |-> 0,
          queries |-> <<>>]
    ELSE IF fault = "connect"
    THEN [exc |-> "connect failed", rows |-> <<>>, connects |-> 0, releases |-> 0,
          queries |-> <<>>]
    ELSE LET r == ExecuteQuery(d, query, tie)
         IN  IF fault = "execute"
             THEN [exc |-> "execute failed", rows |-> <<>>, connects |-> 1,
                   releases |-> 1, queries |-> <<query>>]
             ELSE IF ~r.ok
             THEN [exc |-> r.error, rows |-> <<>>, connects |-> 1,
                   releases |-> 1, queries |-> <<query>>]
             ELSE [exc |-> "", rows |-> r.rows, connects |-> 1,
                   releases |-> 1, queries |-> <<query>>]

\* Variant of fetch_data: conn = engine.connect(); df = read_sql(); conn.close()
\* without the with block, so an error of read_sql skips the close.
fetch_data_no_with(d, query, fault, tie) ==
    IF fault = "connect"
    THEN [exc |-> "connect failed", rows |-> <<>>, connects |-> 0, releases |-> 0,
          queries |-> <<>>]
    ELSE LET r == ExecuteQuery(d, query, tie)
         IN  IF fault = "execute"
             THEN [exc |-> "execute failed", rows |-> <<>>, connects |-> 1,
                   releases |-> 0, queries |-> <<query>>]
             ELSE IF ~r.ok
             THEN [exc |-> r.error, rows |-> <<>>, connects |-> 1,
                   releases |-> 0, queries |-> <<query>>]
             ELSE [exc |-> "", rows |-> r.rows, connects |-> 1,
                   releases |-> 1, queries |-> <<query>>]

\* _fetch_data(query): with self.engine.connect() as conn: pd.read_sql(...)
fetch_data(d, query, fault, tie) ==
    IF fault = "connect"
    THEN [exc |-> "connect failed", rows |-> <<>>, connects |-> 0, releases |-> 0,
          queries |-> <<>>]
    ELSE LET r == ExecuteQuery(d, query, tie)
         IN  IF fault = "execute"
             THEN [exc |-> "execute failed", rows |-> <<>>, connects |-> 1,
                   releases |-> 1, queries |-> <<query>>]
             ELSE IF ~r.ok
             THEN [exc |-> r.error, rows |-> <<>>, connects |-> 1,
                   releases |-> 1, queries |-> <<query>>]
             ELSE [exc |-> "", rows |-> r.rows, connects |-> 1,
                   releases |-> 1, queries |-> <<query>>]

\* What one call did: the routine it entered and its arguments, the
\* connections and queries of its fetch, the rows fetched and the rows handed
\* to the renderer, the warnings logged, the value returned (ret) or the
\* exception that left the routine (exc).
Outcome(routine, args, f, frame, warnings, ret, exc) ==
    [routine |-> routine, args |-> args, connects |-> f.connects,
     releases |-> f.releases, queries |-> f.queries, fetched |-> f.rows,
     frame |-> frame, warnings |-> warnings, ret |-> ret, exc |-> exc]

NoFetch == [exc |-> "", rows |-> <<>>, connects |-> 0, releases |-> 0, queries |-> <<>>]

\* A return before any routine is entered.
Direct(msg) == Outcome("none", <<>>, NoFetch, <<>>, 0, <<NoChart, msg>>, "")

\* The tail every routine shares: the fetch raised, or the renderer raised,
\* or (fig, title) is returned.
Render(routine, args, f, frame, warnings, chart, title, fault) ==
    IF f.exc # "" THEN Outcome(routine, args, f, <<>>, 0, <<NoChart, title>>, f.exc)
    ELSE IF fault = "render"
    THEN Outcome(routine, args, f, frame, warnings, <<NoChart, title>>, "render failed")
    ELSE Outcome(routine, args, f, frame, warnings, <<chart, title>>, "")

----------------------------------------------------------------------------
(* The five chart routines *)

\* '(사고건수)' in num_var
IsAccidentCount(num_var) == num_var[2] = AccidentCountCol

AggFunc(num_var) == IF IsAccidentCount(num_var) THEN "COUNT" ELSE "SUM"

\* "COUNT(ACCIDENT.AccidentID)" if col3 == '(사고건수)' else f"SUM({table3}.{col3})"
AggVal(num_var, name) ==
    IF num_var[2] = AccidentCountCol THEN Agg("COUNT", AccidentIdRef, name)
    ELSE Agg("SUM", num_var, name)

\* Variant of create_bar_chart: the ORDER BY of the query builder (by category)
\* is kept in place of ORDER BY Value DESC.
create_bar_chart_by_category(d, cat_var, num_var, cat_label, num_label, fault, tie) ==
    LET title == Text("bar: top 20", cat_label, num_label, <<>>, "")
        c == build_query_components(cat_var, num_var, AggFunc(num_var))
        query == MkQuery(c.select, c.from, c.joins, c.groupBy, c.orderBy, TopN)
        f == fetch_data(d, query, fault, tie)
        col1_name == cat_var[2]
        fig == Chart("bar", col1_name, "Value", "", "", f.rows, title,
                     ("Value" :> num_label) @@ (col1_name :> cat_label))
    IN  Render("bar", <<cat_var, num_var, cat_label, num_label>>, f, f.rows, 0,
               fig, title, fault)

\* _create_bar_chart(cat_var, num_var, cat_label, num_label)
create_bar_chart(d, cat_var, num_var, cat_label, num_label, fault, tie) ==
    LET title == Text("bar: top 20", cat_label, num_label, <<>>, "")
        c == build_query_components(cat_var, num_var, AggFunc(num_var))
        query == MkQuery(c.select, c.from, c.joins, c.groupBy, OrderByValueDesc, TopN)
        f == fetch_data(d, query, fault, tie)
        col1_name == cat_var[2]
        fig == Chart("bar", col1_name, "Value", "", "", f.rows, title,
                     ("Value" :> num_label) @@ (col1_name :> cat_label))
    IN  Render("bar", <<cat_var, num_var, cat_label, num_label>>, f, f.rows, 0,
               fig, title, fault)

\* _create_line_chart(time_var, num_var, time_label, num_label)
create_line_chart(d, time_var, num_var, time_label, num_label, fault, tie) ==
    LET title == Text("line: trend", time_label, num_label, <<>>, "")
        c == build_query_components(time_var, num_var, AggFunc(num_var))
        query == MkQuery(c.select, c.from, c.joins, c.groupBy, c.orderBy, NoLimit)
        f == fetch_data(d, query, fault, tie)
        col1_name == time_var[2]
        conv == to_datetime_column(f.rows, 1)
        fig == Chart("line", col1_name, "Value", "", "", conv.rows, title,
                     ("Value" :> num_label) @@ (col1_name :> time_label))
    IN  Render("line", <<time_var, num_var, time_label, num_label>>, f, conv.rows,
               conv.warnings, fig, title, fault)

\* _create_grouped_bar_chart(var1, var2, num_var, label1, label2, num_label)
create_grouped_bar_chart(d, var1, var2, num_var, label1, label2, num_label, fault, tie) ==
    LET title == Text("grouped bar", label1, label2, num_label, "")
        tables_needed == {"ACCIDENT", var1[1], var2[1], num_var[1]}
        query == MkQuery(<<Col(var1), Col(var2), AggVal(num_var, "Value")>>, "ACCIDENT",
                         JoinClause(tables_needed), <<var1, var2>>, NoOrder, NoLimit)
        f == fetch_data(d, query, fault, tie)
        fig == Chart("grouped bar", var1[2], "Value", var2[2], "", f.rows, title,
                     ("Value" :> num_label) @@ (var2[2] :> label2) @@ (var1[2] :> label1))
    IN  Render("grouped bar", <<var1, var2, num_var, label1, label2, num_label>>, f,
               f.rows, 0, fig, title, fault)

\* Variant of df_empty: the frame is never taken for empty.
df_empty_never(rows) == FALSE

\* df.empty
df_empty(rows) == rows = <<>>

\* _create_bubble_chart(var1, var2, label1, label2)
create_bubble_chart(d, var1, var2, label1, label2, fault, tie) ==
    LET title == Text("bubble", label1, label2, <<>>, "")
        tables_needed == {"ACCIDENT", var1[1], var2[1]}
        query == MkQuery(<<Col(var1), Col(var2), Agg("COUNT", AccidentIdRef, "BubbleSize")>>,
                         "ACCIDENT", JoinClause(tables_needed), <<var1, var2>>,
                         NoOrder, NoLimit)
        f == fetch_data(d, query, fault, tie)
        args == <<var1, var2, label1, label2>>
        fig == Chart("bubble", var1[2], var2[2], "BubbleSize", "BubbleSize", f.rows, title,
                     ("BubbleSize" :> L_AccidentCount) @@ (var2[2] :> label2)
                        @@ (var1[2] :> label1))
    IN  IF f.exc = "" /\ df_empty(f.rows)
        THEN Outcome("bubble", args, f, f.rows, 0, <<NoChart, MsgNoData>>, "")
        ELSE Render("bubble", args, f, f.rows, 0, fig, title, fault)

\* _create_multi_line_chart(time_var, cat_var, num_var, time_label, cat_label, num_label)
create_multi_line_chart(d, time_var, cat_var, num_var, time_label, cat_label, num_label, fault, tie) ==
    LET title == Text("multi line: trend", time_label, cat_label, num_label, "")
        tables_needed == {"ACCIDENT", time_var[1], cat_var[1], num_var[1]}
        query == MkQuery(<<Col(time_var), Col(cat_var), AggVal(num_var, "Value")>>, "ACCIDENT",
                         JoinClause(tables_needed), <<time_var, cat_var>>,
                         OrderByCol(time_var), NoLimit)
        f == fetch_data(d, query, fault, tie)
        col1_name == time_var[2]
        conv == to_datetime_column(f.rows, 1)
        fig == Chart("multi line", col1_name, "Value", cat_var[2], "", conv.rows, title,
                     (cat_var[2] :> cat_label) @@ ("Value" :> num_label)
                        @@ (time_var[2] :> time_label))
    IN  Render("multi line", <<time_var, cat_var, num_var, time_label, cat_label, num_label>>,
               f, conv.rows, conv.warnings, fig, title, fault)

----------------------------------------------------------------------------
(* generate_visualization *)

\* Variant of TryExcept: only the errors of the store are caught, as
\* "except SQLAlchemyError" would; an error of the renderer leaves the call.
TryExcept_store_only(r) ==
    IF r.exc \in {"connect failed", "execute failed", "unknown column"}
    THEN [r EXCEPT !.ret = <<NoChart, MsgChartError(r.exc)>>, !.exc = ""]
    ELSE r

\* try: ... except Exception as e: return None, f"...: {e}"
TryExcept(r) ==
    IF r.exc # "" THEN [r EXCEPT !.ret = <<NoChart, MsgChartError(r.exc)>>, !.exc = ""]
    ELSE r

\* Variant of HasAccidentCount: only the first label is looked at.
HasAccidentCount_first(label1, label2) == label1 = L_AccidentCount

\* '사고건수' in [label1, label2]
HasAccidentCount(label1, label2) == L_AccidentCount \in {label1, label2}

\* Variant of Dispatch: the Numeric/Categorical and Numeric/Temporal orders
\* pass their arguments on without swapping them.
Dispatch_noswap(map, d, var1, var2, type1, type2, label1, label2, fault, tie) ==
    LET num_label == L_AccidentCount
        num_var == get_internal_name(map, num_label)
    IN  IF type1 = "Categorical" /\ type2 = "Numeric"
        THEN create_bar_chart(d, var1, var2, label1, label2, fault, tie)
        ELSE IF type1 = "Numeric" /\ type2 = "Categorical"
        THEN create_bar_chart(d, var1, var2, label1, label2, fault, tie)
        ELSE IF type1 = "Temporal" /\ type2 = "Numeric"
        THEN create_line_chart(d, var1, var2, label1, label2, fault, tie)
        ELSE IF type1 = "Numeric" /\ type2 = "Temporal"
        THEN create_line_chart(d, var1, var2, label1, label2, fault, tie)
        ELSE IF type1 = "Categorical" /\ type2 = "Categorical"
        THEN create_grouped_bar_chart(d, var1, var2, num_var, label1, label2, num_label,
                                      fault, tie)
        ELSE IF type1 = "Numeric" /\ type2 = "Numeric"
        THEN IF HasAccidentCount(label1, label2)
             THEN Direct(MsgNoAccidentCount)
             ELSE create_bubble_chart(d, var1, var2, label1, label2, fault, tie)
        ELSE IF type1 = "Temporal" /\ type2 = "Categorical"
        THEN create_multi_line_chart(d, var1, var2, num_var, label1, label2, num_label,
                                     fault, tie)
        ELSE IF type1 = "Categorical" /\ type2 = "Temporal"
        THEN create_multi_line_chart(d, var2, var1, num_var, label2, label1, num_label,
                                     fault, tie)
        ELSE Direct(MsgNoVisualization)

\* The body of the try block: the chain of type tests, first match returns.
Dispatch(map, d, var1, var2, type1, type2, label1, label2, fault, tie) ==
    LET num_label == L_AccidentCount
        num_var == get_internal_name(map, num_label)
    IN  IF type1 = "Categorical" /\ type2 = "Numeric"
        THEN create_bar_chart(d, var1, var2, label1, label2, fault, tie)
        ELSE IF type1 = "Numeric" /\ type2 = "Categorical"
        THEN create_bar_chart(d, var2, var1, label2, label1, fault, tie)
        ELSE IF type1 = "Temporal" /\ type2 = "Numeric"
        THEN create_line_chart(d, var1, var2, label1, label2, fault, tie)
        ELSE IF type1 = "Numeric" /\ type2 = "Temporal"
        THEN create_line_chart(d, var2, var1, label2, label1, fault, tie)
        ELSE IF type1 = "Categorical" /\ type2 = "Categorical"
        THEN create_grouped_bar_chart(d, var1, var2, num_var, label1, label2, num_label,
                                      fault, tie)
        ELSE IF type1 = "Numeric" /\ type2 = "Numeric"
        THEN IF HasAccidentCount(label1, label2)
             THEN Direct(MsgNoAccidentCount)
             ELSE create_bubble_chart(d, var1, var2, label1, label2, fault, tie)
        ELSE IF type1 = "Temporal" /\ type2 = "Categorical"
        THEN create_multi_line_chart(d, var1, var2, num_var, label1, label2, num_label,
                                     fault, tie)
        ELSE IF type1 = "Categorical" /\ type2 = "Temporal"
        THEN create_multi_line_chart(d, var2, var1, num_var, label2, label1, num_label,
                                     fault, tie)
        ELSE Direct(MsgNoVisualization)

\* generate_visualization(self, label1, label2)
generate_visualization(map, config, d, label1, label2, fault, tie) ==
    LET var1 == get_internal_name(map, label1)
        var2 == get_internal_name(map, label2)
    IN  IF var1 = None \/ var2 = None
        THEN Direct(MsgNotFound)
        ELSE TryExcept(Dispatch(map, d, var1, var2, get_column_type(config, var1),
                                get_column_type(config, var2), label1, label2, fault, tie))

----------------------------------------------------------------------------
(* The state machine: a caller that makes one call after another *)

\* Labels a caller passes that are not in the catalog.
UnknownLabel == <<117, 110, 107, 110, 111, 119, 110>>    \* "unknown"
NearMissLabel == L_DayNight \o <<32>>                    \* '주야 ' (trailing blank)

CallLabels == {ColumnConfigLiteral[i].label : i \in 1..Len(ColumnConfigLiteral)}
              \cup {UnknownLabel, NearMissLabel}

\* A failing environment fails before the order of tied rows can show.
Envs == {e \in Faults \X Ties : e[1] \in {"connect", "execute"} => e[2] = "asc"}

NoCall == [op |-> "none", label1 |-> <<>>, label2 |-> <<>>, fault |-> "none", tie |-> "asc"]
NoOut == Direct(Text("", <<>>, <<>>, <<>>, ""))
NoLast == [queries |-> <<>>, rows |-> <<>>]

\* AccidentVisualizer(engine): __init__ builds the reverse map.
Init ==
    /\ COLUMN_CONFIG = ColumnConfigLiteral
    /\ LABEL_TO_INTERNAL = BuildLabelMap(ColumnConfigLiteral)
    /\ db \in Databases
    /\ call = NoCall
    /\ out = NoOut
    /\ columns = <<>>
    /\ held = 0
    /\ previous = NoLast

\* viz.generate_visualization(label1, label2)
GenerateVisualization ==
    /\ call.op = "none"
    /\ \E label1 \in CallLabels, label2 \in CallLabels, e \in Envs :
          /\ call' = [op |-> "generate_visualization", label1 |-> label1,
                      label2 |-> label2, fault |-> e[1], tie |-> e[2]]
          /\ out' = generate_visualization(LABEL_TO_INTERNAL, COLUMN_CONFIG, db,
                                           label1, label2, e[1], e[2])
    /\ held' = held + out'.connects - out'.releases
    /\ UNCHANGED <<COLUMN_CONFIG, LABEL_TO_INTERNAL, db, columns, previous>>

\* viz.get_available_columns()
GetAvailableColumns ==
    /\ call.op \in {"none", "generate_visualization"}
    /\ call' = [NoCall EXCEPT !.op = "get_available_columns"]
    /\ columns' = get_available_columns(LABEL_TO_INTERNAL)
    /\ UNCHANGED <<COLUMN_CONFIG, LABEL_TO_INTERNAL, db, out, held, previous>>

\* The caller has used the returned value and is ready for its next call.
NextCall ==
    /\ call.op # "none"
    /\ call' = NoCall
    /\ out' = NoOut
    /\ columns' = <<>>
    /\ UNCHANGED <<COLUMN_CONFIG, LABEL_TO_INTERNAL, db, held, previous>>

Next == GenerateVisualization \/ GetAvailableColumns \/ NextCall

Spec == Init /\ [][Next]_vars

----------------------------------------------------------------------------
(* A session of calls against a store that other writers change between   *)
(* the calls; what the call before fetched is remembered in previous.      *)

\* Bound of the databases of a session.
MaxAccidents12 == 2

Databases12 == {GenDB(n, seed, "wellformed") : n \in 0..MaxAccidents12, seed \in 1..MaxSeed}

\* Labels that reach each of the five routines, and one that is unknown.
CallLabels12 == {L_DayNight, L_Role, L_MinorInjuryCount, L_OccurYearMonth, UnknownLabel}

Init12 ==
    /\ COLUMN_CONFIG = ColumnConfigLiteral
    /\ LABEL_TO_INTERNAL = BuildLabelMap(ColumnConfigLiteral)
    /\ db \in Databases12
    /\ call = NoCall
    /\ out = NoOut
    /\ columns = <<>>
    /\ held = 0
    /\ previous = NoLast

\* viz.generate_visualization(label1, label2), one call of the session
GenerateVisualization12 ==
    /\ call.op = "none"
    /\ \E label1 \in CallLabels12, label2 \in CallLabels12, e \in Envs :
          /\ call' = [op |-> "generate_visualization", label1 |-> label1,
                      label2 |-> label2, fault |-> e[1], tie |-> e[2]]
          /\ out' = generate_visualization(LABEL_TO_INTERNAL, COLUMN_CONFIG, db,
                                           label1, label2, e[1], e[2])
    /\ held' = held + out'.connects - out'.releases
    /\ UNCHANGED <<COLUMN_CONFIG, LABEL_TO_INTERNAL, db, columns, previous>>

\* The caller goes on to its next call; the fetch of the call that has
\* returned becomes the previous fetch.
NextCall12 ==
    /\ call.op # "none"
    /\ call' = NoCall
    /\ out' = NoOut
    /\ previous' = IF out.queries # <<>> /\ call.fault # "execute"
                   THEN [queries |-> out.queries, rows |-> out.fetched]
                   ELSE previous
    /\ UNCHANGED <<COLUMN_CONFIG, LABEL_TO_INTERNAL, db, columns, held>>

\* Another writer changes the contents of the store between two calls.
StoreChanges12 ==
    /\ call.op = "none"
    /\ db' \in Databases12 \ {db}
    /\ UNCHANGED <<COLUMN_CONFIG, LABEL_TO_INTERNAL, call, out, columns, held, previous>>

Next12 == GenerateVisualization12 \/ NextCall12 \/ StoreChanges12

Spec12 == Init12 /\ [][Next12]_vars

----------------------------------------------------------------------------
(* Properties *)

\* What the claims speak of, read off the catalog literal.
InCatalog(l) == \E i \in 1..Len(ColumnConfigLiteral) : ColumnConfigLiteral[i].label = l
EntryOf(l) == ColumnConfigLiteral[CHOOSE i \in 1..Len(ColumnConfigLiteral) :
                                      ColumnConfigLiteral[i].label = l]

Called == call.op = "generate_visualization"
BothKnown == InCatalog(call.label1) /\ InCatalog(call.label2)
E1 == EntryOf(call.label1)
E2 == EntryOf(call.label2)
Types(a, b) == E1.type = a /\ E2.type = b
EitherOrder(a, b) == Types(a, b) \/ Types(b, a)
\* The entry of the given type among the two of the call.
The(ty) == IF E1.type = ty THEN E1 ELSE E2

Failed(msg) == out.ret[1].kind = "None" /\ out.ret[2].fmt = msg.fmt
Succeeded(kind) == out.ret[1].kind = kind /\ out.ret[2] = out.ret[1].title
FetchFails == call.fault \in {"connect", "execute"}

\* C1: every ordered pair of catalog labels is handed to the routine of the
\* type-pair table: Categorical+Numeric in either order to the bar chart with
\* the categorical field as category argument, Temporal+Numeric in either
\* order to the line chart with the temporal field as time argument,
\* Categorical+Categorical to the grouped bar with field1 on X and field2 as
\* colour, Numeric+Numeric without accident-count to the bubble chart with
\* field1 on X and field2 on Y, Temporal+Categorical in either order to the
\* multi-line chart with the temporal field on X, every other type pair to
\* the failure "cannot generate visualization for this combination"; a call
\* enters one routine and sends at most one query.
C1_DispatchTable ==
    (Called /\ BothKnown) =>
        /\ Len(out.queries) <= 1
        /\ CASE EitherOrder("Categorical", "Numeric") ->
                  /\ out.routine = "bar"
                  /\ out.args = <<The("Categorical").key, The("Numeric").key,
                                  The("Categorical").label, The("Numeric").label>>
                  /\ out.ret[1].kind # "None" => out.ret[1].x = The("Categorical").key[2]
             [] EitherOrder("Temporal", "Numeric") ->
                  /\ out.routine = "line"
                  /\ out.args = <<The("Temporal").key, The("Numeric").key,
                                  The("Temporal").label, The("Numeric").label>>
                  /\ out.ret[1].kind # "None" => out.ret[1].x = The("Temporal").key[2]
             [] Types("Categorical", "Categorical") ->
                  /\ out.routine = "grouped bar"
                  /\ out.args[1] = E1.key /\ out.args[2] = E2.key
                  /\ out.ret[1].kind # "None" =>
                        out.ret[1].x = E1.key[2] /\ out.ret[1].color = E2.key[2]
             [] Types("Numeric", "Numeric") ->
                  L_AccidentCount \notin {call.label1, call.label2} =>
                     /\ out.routine = "bubble"
                     /\ out.args = <<E1.key, E2.key, E1.label, E2.label>>
                     /\ out.ret[1].kind # "None" =>
                           out.ret[1].x = E1.key[2] /\ out.ret[1].y = E2.key[2]
             [] EitherOrder("Temporal", "Categorical") ->
                  /\ out.routine = "multi line"
                  /\ out.args[1] = The("Temporal").key
                  /\ out.args[2] = The("Categorical").key
                  /\ out.ret[1].kind # "None" => out.ret[1].x = The("Temporal").key[2]
             [] OTHER ->
                  /\ out.routine = "none"
                  /\ Failed(MsgNoVisualization)

\* C1 witness: the numeric label first, the categorical one second, and the
\* bar chart routine has returned its chart.
C1_Witness ==
    /\ Called
    /\ call.label1 = L_AccidentCount /\ call.label2 = L_RegionName
    /\ out.routine = "bar" /\ Succeeded("bar")
    /\ Len(out.frame) > 1

\* C2: when a label of the call is not in the catalog, whatever the other
\* one is, the call returns (None, "variable name not found"), and during the
\* call no query is sent and no connection is acquired.
C2_UnknownLabel ==
    (Called /\ ~BothKnown) =>
        /\ Failed(MsgNotFound)
        /\ out.routine = "none"
        /\ out.queries = <<>>
        /\ out.connects = 0

\* C2 witness: an unknown label with the accident-count label has been
\* answered.
C2_Witness ==
    /\ Called
    /\ call.label1 = UnknownLabel /\ call.label2 = L_AccidentCount
    /\ call.fault = "none"
    /\ Failed(MsgNotFound)

\* C3: with two Numeric fields, accident-count as either label or as both
\* makes the call return (None, "accident-count not supported") without a
\* query; without accident-count the bubble routine is entered and the size
\* of each of its rows is the number of ACCIDENT rows that have the row's two
\* field values, one row per combination that occurs.
C3_NumericPair ==
    (Called /\ BothKnown /\ Types("Numeric", "Numeric")) =>
        IF L_AccidentCount \in {call.label1, call.label2}
        THEN /\ Failed(MsgNoAccidentCount)
             /\ out.routine = "none"
             /\ out.queries = <<>> /\ out.connects = 0
        ELSE /\ out.routine = "bubble"
             /\ ~FetchFails =>
                  /\ \A i \in 1..Len(out.fetched) :
                        out.fetched[i][3] =
                           Cardinality({a \in db.ACCIDENT :
                                           /\ a[E1.key[2]] = out.fetched[i][1]
                                           /\ a[E2.key[2]] = out.fetched[i][2]})
                  /\ \A a \in db.ACCIDENT : \E i \in 1..Len(out.fetched) :
                        /\ out.fetched[i][1] = a[E1.key[2]]
                        /\ out.fetched[i][2] = a[E2.key[2]]
                  /\ \A i, j \in 1..Len(out.fetched) :
                        (out.fetched[i][1] = out.fetched[j][1]
                         /\ out.fetched[i][2] = out.fetched[j][2]) => i = j
                  /\ out.ret[1].kind # "None" => out.ret[1].size = "BubbleSize"

\* C3 witness: accident-count in the second position of a Numeric pair has
\* been refused.
C3_Witness ==
    /\ Called
    /\ call.label1 = L_SevereInjuryCount /\ call.label2 = L_AccidentCount
    /\ Failed(MsgNoAccidentCount)
    /\ db.ACCIDENT # {}

\* The error text of the environment's failure.
ErrorText(fault) ==
    CASE fault = "connect" -> "connect failed"
      [] fault = "execute" -> "execute failed"
      [] OTHER             -> "render failed"

\* The failure of the call's environment lies on the path the call took.
FaultHit ==
    /\ out.routine # "none"
    /\ \/ FetchFails
       \/ call.fault = "render" /\ ~(out.routine = "bubble" /\ out.fetched = <<>>)

\* C4: whatever the labels and wherever the store or the renderer raises
\* (acquiring the connection, running the query, building the chart), the
\* call returns (None, message with the error text) and no exception leaves
\* generate_visualization, in each of the five routines.
C4_NoFaultPropagates ==
    Called =>
        /\ out.exc = ""
        /\ FaultHit => /\ Failed(MsgChartError(""))
                       /\ out.ret[2].text = ErrorText(call.fault)

\* C4 witness: the renderer raised in the multi-line routine and the call
\* has returned the failure.
C4_Witness ==
    /\ Called
    /\ out.routine = "multi line" /\ call.fault = "render"
    /\ Len(out.fetched) > 0
    /\ Failed(MsgChartError(""))

\* C5: in the bubble routine a fetch of zero rows returns (None, "no data")
\* and never a chart; a fetch of one or more rows returns (chart, title)
\* over those rows when the renderer does not raise.
C5_BubbleEmpty ==
    (Called /\ out.routine = "bubble" /\ ~FetchFails) =>
        IF out.fetched = <<>>
        THEN Failed(MsgNoData)
        ELSE call.fault = "none" =>
                /\ Succeeded("bubble")
                /\ out.ret[1].data = out.fetched

\* C5 witness: the bubble query ran against an empty ACCIDENT table and the
\* call has returned "no data".
C5_Witness ==
    /\ Called
    /\ out.routine = "bubble" /\ call.fault = "none"
    /\ Len(out.queries) = 1 /\ out.fetched = <<>>
    /\ Failed(MsgNoData)

Rows(seq) == {seq[i] : i \in 1..Len(seq)}

\* The call with its two labels exchanged, same store, same environment.
Swapped ==
    generate_visualization(LABEL_TO_INTERNAL, COLUMN_CONFIG, db,
                           call.label2, call.label1, call.fault, call.tie)

\* C6: for every pair of catalog labels, generate(label1, label2) and
\* generate(label2, label1) on the same database end in the same chart kind
\* or the same failure; for a pair of two types both orders send the
\* identical query and chart the same rows; for a pair of one type the rows
\* are the same with the two fields exchanged, and so are the axis roles.
C6_Commutative ==
    (Called /\ BothKnown) =>
        LET sw == Swapped
        IN  /\ out.routine = sw.routine
            /\ out.ret[1].kind = sw.ret[1].kind
            /\ out.ret[1].kind = "None" =>
                  /\ out.ret[2].fmt = sw.ret[2].fmt
                  /\ out.ret[2].text = sw.ret[2].text
            /\ IF E1.type # E2.type
               THEN /\ out.queries = sw.queries
                    /\ out.frame = sw.frame
                    /\ out.ret[1].x = sw.ret[1].x
               ELSE /\ {<<r[2], r[1], r[3]>> : r \in Rows(out.frame)} = Rows(sw.frame)
                    /\ out.routine = "grouped bar" => out.ret[1].x = sw.ret[1].color
                    /\ out.routine = "bubble" => out.ret[1].x = sw.ret[1].y

\* C6 witness: a grouped bar chart of two categorical fields of different
\* tables, with more than one group.
C6_Witness ==
    /\ Called
    /\ call.label1 = L_DayNight /\ call.label2 = L_Role
    /\ Succeeded("grouped bar")
    /\ Len(out.frame) > 1

\* C7: for every Categorical/Numeric pair and every database, the rows of
\* the bar chart are at most 20, in descending order of the aggregate value,
\* and they are the categories with the 20 largest aggregate values (every
\* category when there are 20 or fewer).
C7_BarTop20 ==
    (Called /\ out.routine = "bar" /\ ~FetchFails) =>
        LET rows == out.fetched
            all == GroupedRows(db, out.queries[1])
        IN  /\ Len(rows) <= 20
            /\ \A i, j \in 1..Len(rows) : i < j => rows[i][2] >= rows[j][2]
            /\ Rows(rows) \subseteq all
            /\ \A i, j \in 1..Len(rows) : rows[i][1] = rows[j][1] => i = j
            /\ Len(rows) = IF Cardinality(all) <= 20 THEN Cardinality(all) ELSE 20
            /\ \A r \in all \ Rows(rows) : \A i \in 1..Len(rows) : rows[i][2] >= r[2]
            /\ call.fault = "none" => out.ret[1].data = rows

\* C7 witness: a bar chart over more than 20 regions with different sums.
C7_Witness ==
    /\ Called
    /\ out.routine = "bar" /\ Succeeded("bar")
    /\ call.label1 = L_RegionName /\ call.label2 = L_MinorInjuryCount
    /\ Cardinality(GroupedRows(db, out.queries[1])) > 20
    /\ Len(out.fetched) = 20
    /\ out.fetched[1][2] > out.fetched[20][2]

\* A stored value that is a year-month of six digits, and its date.
WellFormedYM(s) ==
    /\ Len(s) = 6
    /\ \A i \in 1..6 : s[i] \in 48..57
    /\ (10 * (s[5] - 48) + (s[6] - 48)) \in 1..12
DateOfYM(s) ==
    <<-1, 1000 * (s[1] - 48) + 100 * (s[2] - 48) + 10 * (s[3] - 48) + (s[4] - 48),
      10 * (s[5] - 48) + (s[6] - 48), 1>>

TemporalRoutine == Called /\ out.routine \in {"line", "multi line"} /\ ~FetchFails

\* C8 as stated: in the line and multi-line routines every fetched row with a
\* well-formed six-digit year-month is converted to its date, every row with
\* a malformed value keeps the raw value and a warning is recorded, no row is
\* dropped and the call is not aborted.
C8_PerRowConversion ==
    TemporalRoutine =>
        /\ Len(out.frame) = Len(out.fetched)
        /\ \A i \in 1..Len(out.fetched) :
              IF WellFormedYM(out.fetched[i][1])
              THEN out.frame[i][1] = DateOfYM(out.fetched[i][1])
              ELSE out.frame[i][1] = out.fetched[i][1] /\ out.warnings >= 1
        /\ call.fault = "none" => out.ret[1].kind = out.routine

\* C8 amended: the conversion is of the whole column.  When every fetched row
\* has a well-formed year-month, every row is converted to its date and no
\* warning is recorded; when one row or more is malformed, one warning is
\* recorded and every row, the well-formed ones too, keeps its raw value.  In
\* both cases no row is dropped, the other fields are kept, and the call goes
\* on to the chart.
C8_WholeColumnConversion ==
    TemporalRoutine =>
        /\ Len(out.frame) = Len(out.fetched)
        /\ \A i \in 1..Len(out.fetched) :
              Tail(out.frame[i]) = Tail(out.fetched[i])
        /\ IF \A i \in 1..Len(out.fetched) : WellFormedYM(out.fetched[i][1])
           THEN /\ out.warnings = 0
                /\ \A i \in 1..Len(out.fetched) :
                      out.frame[i][1] = DateOfYM(out.fetched[i][1])
           ELSE /\ out.warnings = 1
                /\ \A i \in 1..Len(out.fetched) :
                      out.frame[i][1] = out.fetched[i][1]
        /\ call.fault = "none" =>
              /\ out.ret[1].kind = out.routine
              /\ out.ret[1].data = out.frame

\* C8 witness: a line chart over a column that holds a malformed value next
\* to a well-formed one; the warning is recorded and the chart is returned.
C8_Witness ==
    /\ Called
    /\ out.routine = "line" /\ Succeeded("line")
    /\ \E i, j \in 1..Len(out.fetched) :
          /\ WellFormedYM(out.fetched[i][1])
          /\ ~WellFormedYM(out.fetched[j][1])
    /\ out.warnings = 1

\* sorted() of the eighteen labels, as Python orders them.
SortedLabels ==
    << L_MinorInjuryCount, L_WeatherState, L_RoadSurfaceState, L_RoadForm,
       L_OccurYearMonth, L_LawViolationYn, L_ReportedInjuryCount, L_AccidentCount,
       L_AccidentType, L_DeathCount, L_Role, L_InjuryLevel, L_Gender, L_AgeGroup,
       L_VehicleType, L_DayNight, L_SevereInjuryCount, L_RegionName >>

\* C9: in every state, before and after any calls, get_available_columns
\* returns each display label of the catalog once, in sorted order; each
\* label it returns resolves to an internal name whose catalog entry carries
\* that label and whose type is Categorical, Numeric or Temporal; the
\* catalog and the label index are what __init__ left.
C9_CatalogRoundTrip ==
    LET cols == get_available_columns(LABEL_TO_INTERNAL)
    IN  /\ cols = SortedLabels
        /\ \A i, j \in 1..Len(cols) : i < j => StrLess(cols[i], cols[j])
        /\ \A k \in 1..Len(ColumnConfigLiteral) :
              Cardinality({i \in 1..Len(cols) : cols[i] = ColumnConfigLiteral[k].label}) = 1
        /\ \A i \in 1..Len(cols) :
              LET id == get_internal_name(LABEL_TO_INTERNAL, cols[i])
              IN  /\ id # None
                  /\ \E k \in 1..Len(COLUMN_CONFIG) :
                        COLUMN_CONFIG[k].key = id /\ COLUMN_CONFIG[k].label = cols[i]
                  /\ get_column_type(COLUMN_CONFIG, id) \in {"Categorical", "Numeric", "Temporal"}
        /\ COLUMN_CONFIG = ColumnConfigLiteral
        /\ DOMAIN LABEL_TO_INTERNAL = Rows(SortedLabels)
        /\ call.op = "get_available_columns" => columns = cols

\* C9 witness: get_available_columns has been called after a
\* generate_visualization call that drew a chart.
C9_Witness ==
    /\ call.op = "get_available_columns"
    /\ Len(columns) = 18 /\ columns[1] = L_MinorInjuryCount
    /\ out.routine = "bar" /\ out.ret[1].kind = "bar"

JoinedTables(q) == {q.joins[i].table : i \in 1..Len(q.joins)}

\* C10: every query a routine sends selects FROM ACCIDENT, and joins DRIVER
\* (on AccidentID) or REGION (on RegionCode) exactly when that table owns one
\* of the fields of the request, each at most once even when it owns both.
C10_JoinsIffReferenced ==
    (Called /\ out.queries # <<>>) =>
        LET q == out.queries[1]
            owners == {E1.key[1], E2.key[1]}
        IN  /\ q.from = "ACCIDENT"
            /\ \A t \in {"DRIVER", "REGION"} : t \in JoinedTables(q) <=> t \in owners
            /\ JoinedTables(q) \subseteq {"DRIVER", "REGION"}
            /\ \A i, j \in 1..Len(q.joins) : q.joins[i].table = q.joins[j].table => i = j
            /\ \A i \in 1..Len(q.joins) :
                  q.joins[i].on = IF q.joins[i].table = "DRIVER" THEN "AccidentID"
                                  ELSE "RegionCode"

\* C10 witness: a query for two fields that both live in DRIVER, which joins
\* DRIVER once and REGION not at all.
C10_Witness ==
    /\ Called
    /\ call.label1 = L_Role /\ call.label2 = L_Gender
    /\ Len(out.queries) = 1
    /\ out.queries[1].joins = <<Join("DRIVER", "AccidentID")>>
    /\ Len(out.fetched) > 1

\* The two dimension fields of the query the call sent, and whether its
\* value is the accident count.
CountsAccidents ==
    /\ Called /\ ~FetchFails /\ out.queries # <<>>
    /\ \/ out.routine \in {"grouped bar", "multi line"}
       \/ out.routine \in {"bar", "line"} /\ L_AccidentCount \in {call.label1, call.label2}

\* The DRIVER rows and the REGION rows of accident a.
DriversOfAccident(a) == {d \in db.DRIVER : d.AccidentID = a.AccidentID}
RegionsOfAccident(a) == {r \in db.REGION : r.RegionCode = a.RegionCode}

\* Accident a has the value v in field k: in its own row, in one of its
\* DRIVER rows, or in its REGION row.
HasValue(a, d, r, k, v) ==
    CASE k[1] = "ACCIDENT" -> a[k[2]] = v
      [] k[1] = "DRIVER"   -> d[k[2]] = v
      [] OTHER             -> r[k[2]] = v

\* The accidents that belong to the group of the given values of the
\* GROUP BY fields ks (one field or two).
AccidentsOfGroup(ks, row) ==
    LET needD == \E i \in 1..Len(ks) : ks[i][1] = "DRIVER"
        needR == \E i \in 1..Len(ks) : ks[i][1] = "REGION"
        Ds(a) == IF needD THEN DriversOfAccident(a) ELSE {[AccidentID |-> a.AccidentID]}
        Rs(a) == IF needR THEN RegionsOfAccident(a) ELSE {[RegionCode |-> a.RegionCode]}
    IN  {a \in db.ACCIDENT :
            \E d \in Ds(a), r \in Rs(a) :
               \A i \in 1..Len(ks) : HasValue(a, d, r, ks[i], row[i])}

\* C11: in the grouped-bar and multi-line charts, and in every chart whose
\* numeric field is accident-count, the value of each group is the number of
\* ACCIDENT rows that belong to the group, for every database content, also
\* when a dimension is a DRIVER field and an accident has several DRIVER
\* rows.
C11_ValueIsAccidentCount ==
    CountsAccidents =>
        LET ks == out.queries[1].groupBy
        IN  \A i \in 1..Len(out.fetched) :
               out.fetched[i][Len(ks) + 1] =
                  Cardinality(AccidentsOfGroup(ks, out.fetched[i]))

\* C12: across a sequence of calls, each call acquires at most one
\* connection and sends at most one query; the connection is released before
\* the call returns, after the rows are read and also when the query raises,
\* so no connection is held once a call has returned; and each call that
\* reaches a routine goes to the store again: it sends its query and its
\* rows are those of the store as it is now, not those of an earlier call.
C12_AcquireUseRelease ==
    /\ held = 0
    /\ Called =>
          /\ out.connects <= 1
          /\ Len(out.queries) <= 1
          /\ out.releases = out.connects
          /\ out.routine = "none" => out.connects = 0 /\ out.queries = <<>>
          /\ (out.routine # "none" /\ call.fault # "connect") =>
                out.connects = 1 /\ Len(out.queries) = 1
          /\ (out.routine # "none" /\ ~FetchFails) =>
                out.fetched = ExecuteQuery(db, out.queries[1], call.tie).rows

\* C12 witness: a call has sent the same query as the call before it, after
\* the store changed in between, and has returned other rows; its connection
\* is released.
C12_Witness ==
    /\ Called
    /\ out.queries # <<>> /\ previous.queries = out.queries
    /\ previous.rows # out.fetched
    /\ out.connects = 1 /\ out.releases = 1
    /\ held = 0

============================================================================
